---- MODULE Spec2Model ----
(***************************************************************************)
(* A model of package mdb (src/mdb/mdb.go): the data-access layer of a     *)
(* mailing-list registry over one SQLite table                             *)
(*                                                                         *)
(*   emails(id INTEGER PRIMARY KEY, email TEXT UNIQUE,                     *)
(*          confirmed_at INTEGER, opt_out INTEGER)                         *)
(*                                                                         *)
(* Every function of the package issues exactly one SQL statement, which   *)
(* the store executes atomically.  A caller is at one of these positions:  *)
(* "idle" (never called), "called" (inside a function, its statement not   *)
(* yet issued), "rows" (inside GetEmail or GetEmailBatch after db.Query    *)
(* handed out a result set and defer rows.Close() was registered, before   *)
(* the rows are read), "returned" (the function has handed its result      *)
(* back) and "exited" (log.Fatal has ended the process).                   *)
(***************************************************************************)
EXTENDS Integers, Sequences, FiniteSets, TLC

VARIABLES
    tableExists,   \* whether CREATE TABLE emails has succeeded on this database
    emails,        \* the rows of table emails: a set of records
    pc,            \* pc[p]: position of caller p
    call,          \* call[p]: the function caller p called last, with its arguments
    ret,           \* ret[p]: what that function returned to caller p
    openRows,      \* openRows[p]: result sets caller p holds open
    rowsOpened,    \* rowsOpened[p]: result sets db.Query handed to caller p's last call
    stmtErr,       \* stmtErr[p]: the error CREATE TABLE gave caller p's call of TryCreate
    pagerCount,    \* page size of the paging client (0: no scan in progress)
    pagerNext,     \* the page the paging client fetches now or next
    pagerPages,    \* the pages fetched by the scan so far, in order
    pagerBase,     \* the ids GetEmailBatch could see when the scan began
    pagerClean     \* no existing row changed its opt_out since the scan began

dbVars    == <<tableExists, emails>>
callVars  == <<pc, call, ret, openRows, rowsOpened, stmtErr>>
pagerVars == <<pagerCount, pagerNext, pagerPages, pagerBase, pagerClean>>
vars      == <<tableExists, emails, pc, call, ret, openRows, rowsOpened, stmtErr,
               pagerCount, pagerNext, pagerPages, pagerBase, pagerClean>>

----------------------------------------------------------------------------
(* Bounds of the model *)

\* The callers are 1..NumCallers.
NumCallers == 2
\* GetEmailBatch is called with Page in MinParam..MaxPage.
MaxPage == 3
\* GetEmailBatch is called with Count in MinParam..MaxCount.
MaxCount == 2
\* Whole seconds since the epoch that a caller's time value may carry: 0..MaxSec.
MaxSec == 1

Callers == 1..NumCallers
Emails  == {"a@x.com", "b@x.com", "c@x.com"}
\* Page and Count are Go ints; the non-positive ones are -1 and 0.
MinParam == 0 - 1

----------------------------------------------------------------------------
(* Go values *)

\* A pointer is nil or holds one value.
Nil == <<>>
Ptr(v) == <<v>>
Deref(p) == p[1]

\* A time.Time: whole seconds since the epoch and the nanoseconds within the second.
HalfSecond == 5 * 100000000
Times == [sec : 0..MaxSec, nsec : {0, HalfSecond}]

\* time.Unix(sec, 0), as emailEntryFromRow calls it.
TimeUnix(sec) == [sec |-> sec, nsec |-> 0]

\* A variant of Unix() that rounds to the nearest second.
UnixRounded(t) == IF t.nsec >= HalfSecond THEN t.sec + 1 ELSE t.sec

\* (time.Time).Unix(): the seconds since the epoch; the nanoseconds are dropped.
Unix(t) == t.sec

\* How the driver binds a Go bool to a statement parameter: as integer 0 or 1.
BindBool(b) == IF b THEN 1 ELSE 0

\* The literals false and true of SQLite.
SqlFalse == 0
SqlTrue  == 1

\* NULL, which both INTEGER columns of the table admit.  The model writes it as
\* -1: no time of the model is negative.
SqlNull == 0 - 1

\* Errors (the value "nil" is Go's nil error).
NoError         == "nil"
ErrNoSuchTable  == "no such table: emails"             \* sqlite code 1
ErrTableExists  == "table emails already exists"       \* sqlite code 1
ErrValueCount   == "1 values for 3 columns"            \* sqlite code 1
ErrUnique       == "UNIQUE constraint failed: emails.email"  \* sqlite code 19
ErrScan         == "sql: Scan error"
ErrNoRows       == "sql: no rows in result set"
\* A Go run-time panic (nil dereference, makeslice) and log.Fatal's exit.
Panic           == "panic"
Fatal           == "fatal"

\* Other errors db.Exec may hand to TryCreate: the name emails is taken by an
\* index, the database is read-only, the handle has been closed.
ErrIndexNamed   == "there is already an index named emails"  \* sqlite code 1
ErrReadOnly     == "attempt to write a readonly database"    \* sqlite code 8
ErrClosed       == "sql: database is closed"                 \* database/sql's own

\* err.(sqlite3.Error): the errors that come from SQLite.
IsSqliteError(err) ==
    err \in {ErrNoSuchTable, ErrTableExists, ErrValueCount, ErrUnique,
             ErrIndexNamed, ErrReadOnly}

\* The Code field of the sqlite3.Error that carries the message.
SqliteCode(err) ==
    IF err \in {ErrNoSuchTable, ErrTableExists, ErrValueCount, ErrIndexNamed} THEN 1
    ELSE IF err = ErrReadOnly THEN 8
    ELSE IF err = ErrUnique THEN 19
    ELSE 0

----------------------------------------------------------------------------
(* The table *)

\* A row of table emails.
Row(id, email, confirmedAt, optOut) ==
    [id |-> id, email |-> email, confirmed_at |-> confirmedAt, opt_out |-> optOut]

\* The rows that WHERE email = ? selects.
RowsWithEmail(tbl, email) == {r \in tbl : r.email = email}

Max(S) == CHOOSE x \in S : \A y \in S : y <= x

\* The id SQLite gives a row inserted without one: one more than the largest
\* rowid in use (1 in an empty table).
NextRowid(tbl) == IF tbl = {} THEN 1 ELSE Max({r.id : r \in tbl}) + 1

\* ORDER BY id ASC.
RECURSIVE OrderById(_)
OrderById(S) ==
    IF S = {} THEN <<>>
    ELSE LET first == CHOOSE r \in S : \A q \in S : r.id <= q.id
         IN  <<first>> \o OrderById(S \ {first})

\* A variant of LIMIT n OFFSET m that skips |m| rows for a negative OFFSET.
LimitOffsetAbs(list, limit, offset) ==
    LET skip == IF offset < 0 THEN 0 - offset ELSE offset
        from == IF skip > Len(list) THEN Len(list) ELSE skip
        rest == SubSeq(list, from + 1, Len(list))
        take == IF limit < 0 \/ limit > Len(rest) THEN Len(rest) ELSE limit
    IN  SubSeq(rest, 1, take)

\* LIMIT n OFFSET m of SQLite over a result list: a negative OFFSET skips
\* nothing and a negative LIMIT is no limit.
LimitOffset(list, limit, offset) ==
    LET skip == IF offset < 0 THEN 0 ELSE offset
        from == IF skip > Len(list) THEN Len(list) ELSE skip
        rest == SubSeq(list, from + 1, Len(list))
        take == IF limit < 0 \/ limit > Len(rest) THEN Len(rest) ELSE limit
    IN  SubSeq(rest, 1, take)

----------------------------------------------------------------------------
(* The statements, as SQLite executes them.  Each yields the table after the *)
(* statement and the error the driver reports ("nil": none).                 *)

StmtResult(tbl, err) == [emails |-> tbl, err |-> err]

\* CREATE TABLE emails (...): fails when the table is there already.
CreateTableStmt(exists) == IF exists THEN ErrTableExists ELSE NoError

\* INSERT INTO emails(email, confirmed_at, opt_out) VALUES ((?, 0, false)):
\* the doubled parentheses make the three values ONE row value, so the statement
\* supplies 1 value for 3 columns and SQLite rejects it when preparing it,
\* whatever the table holds.
InsertNewStmt(exists, tbl, email) ==
    IF ~exists THEN StmtResult(tbl, ErrNoSuchTable)
    ELSE StmtResult(tbl, ErrValueCount)

\* A variant of the upsert that resolves the conflict by replacing the row
\* (INSERT OR REPLACE): the old row goes and a new one, with a new id, comes.
UpsertStmtReplace(exists, tbl, email, t, optOut) ==
    IF ~exists THEN StmtResult(tbl, ErrNoSuchTable)
    ELSE LET kept == tbl \ RowsWithEmail(tbl, email)
         IN  StmtResult(kept \cup {Row(NextRowid(tbl), email, t, optOut)}, NoError)

\* A variant of the upsert over a column that is not UNIQUE: no conflict ever
\* arises and every call inserts.
UpsertStmtNoUnique(exists, tbl, email, t, optOut) ==
    IF ~exists THEN StmtResult(tbl, ErrNoSuchTable)
    ELSE StmtResult(tbl \cup {Row(NextRowid(tbl), email, t, optOut)}, NoError)

\* A variant of the upsert without its ON CONFLICT clause: a plain INSERT, which
\* the UNIQUE constraint rejects when the email is there.
UpsertStmtPlainInsert(exists, tbl, email, t, optOut) ==
    IF ~exists THEN StmtResult(tbl, ErrNoSuchTable)
    ELSE IF RowsWithEmail(tbl, email) = {}
    THEN StmtResult(tbl \cup {Row(NextRowid(tbl), email, t, optOut)}, NoError)
    ELSE StmtResult(tbl, ErrUnique)

\* A variant of the upsert that stores the epoch as NULL (NULLIF(?, 0)).
UpsertStmtNullEpoch(exists, tbl, email, t, optOut) ==
    LET c == IF t = 0 THEN SqlNull ELSE t
    IN  IF ~exists THEN StmtResult(tbl, ErrNoSuchTable)
        ELSE IF RowsWithEmail(tbl, email) = {}
        THEN StmtResult(tbl \cup {Row(NextRowid(tbl), email, c, optOut)}, NoError)
        ELSE StmtResult({IF r.email = email
                         THEN [r EXCEPT !.confirmed_at = c, !.opt_out = optOut]
                         ELSE r : r \in tbl}, NoError)

\* INSERT INTO emails(email, confirmed_at, opt_out) VALUES (?, ?, ?)
\* ON CONFLICT(email) DO UPDATE SET confirmed_at = ?, opt_out = ?
UpsertStmt(exists, tbl, email, t, optOut) ==
    IF ~exists THEN StmtResult(tbl, ErrNoSuchTable)
    ELSE IF RowsWithEmail(tbl, email) = {}
    THEN StmtResult(tbl \cup {Row(NextRowid(tbl), email, t, optOut)}, NoError)
    ELSE StmtResult({IF r.email = email
                     THEN [r EXCEPT !.confirmed_at = t, !.opt_out = optOut]
                     ELSE r : r \in tbl}, NoError)

\* A variant of the soft delete that flips the flag (SET opt_out = NOT opt_out).
SoftDeleteStmtToggle(exists, tbl, email) ==
    IF ~exists THEN StmtResult(tbl, ErrNoSuchTable)
    ELSE StmtResult({IF r.email = email THEN [r EXCEPT !.opt_out = 1 - r.opt_out] ELSE r
                     : r \in tbl}, NoError)

\* A variant of the soft delete that reports a missing row as an error.
SoftDeleteStmtStrict(exists, tbl, email) ==
    IF ~exists THEN StmtResult(tbl, ErrNoSuchTable)
    ELSE IF RowsWithEmail(tbl, email) = {} THEN StmtResult(tbl, ErrNoRows)
    ELSE StmtResult({IF r.email = email THEN [r EXCEPT !.opt_out = SqlTrue] ELSE r
                     : r \in tbl}, NoError)

\* A variant of the soft delete without its WHERE clause.
SoftDeleteStmtAll(exists, tbl, email) ==
    IF ~exists THEN StmtResult(tbl, ErrNoSuchTable)
    ELSE StmtResult({[r EXCEPT !.opt_out = SqlTrue] : r \in tbl}, NoError)

\* UPDATE emails SET opt_out = true WHERE email = ?
SoftDeleteStmt(exists, tbl, email) ==
    IF ~exists THEN StmtResult(tbl, ErrNoSuchTable)
    ELSE StmtResult({IF r.email = email THEN [r EXCEPT !.opt_out = SqlTrue] ELSE r
                     : r \in tbl}, NoError)

\* A variant of the batch query without its WHERE clause.
SelectBatchAll(tbl, limit, offset) ==
    LimitOffset(OrderById(tbl), limit, offset)

\* A variant of the batch query that orders by descending id.
RECURSIVE OrderByIdDesc(_)
OrderByIdDesc(S) ==
    IF S = {} THEN <<>>
    ELSE LET first == CHOOSE r \in S : \A q \in S : r.id >= q.id
         IN  <<first>> \o OrderByIdDesc(S \ {first})

SelectBatchDesc(tbl, limit, offset) ==
    LimitOffset(OrderByIdDesc({r \in tbl : r.opt_out = SqlFalse}), limit, offset)

\* SELECT * FROM emails WHERE opt_out = false ORDER BY id ASC LIMIT ? OFFSET ?:
\* the result list.
SelectBatch(tbl, limit, offset) ==
    LimitOffset(OrderById({r \in tbl : r.opt_out = SqlFalse}), limit, offset)

----------------------------------------------------------------------------
(* Row mapping *)

EmailEntry(id, email, confirmedAt, optOut) ==
    [Id |-> id, Email |-> email, ConfirmedAt |-> confirmedAt, OptOut |-> optOut]

\* row.Scan: the confirmed_at column into an int64, which NULL does not convert
\* to, and the opt_out column into a bool, which 0 and 1 alone convert to.
ScanOk(r) == r.confirmed_at # SqlNull /\ r.opt_out \in {0, 1}

\* emailEntryFromRow: a pointer to the entry and the error.
emailEntryFromRow(r) ==
    IF ~ScanOk(r) THEN [entry |-> Nil, err |-> ErrScan]
    ELSE [entry |-> Ptr(EmailEntry(r.id, r.email, Ptr(TimeUnix(r.confirmed_at)),
                                   r.opt_out = 1)),
          err |-> NoError]

\* The loop of GetEmailBatch over the result list: the entries appended so far,
\* or nil and the error at the first row that does not scan.
RECURSIVE ScanAll(_)
ScanAll(list) ==
    IF list = <<>> THEN [batch |-> <<>>, err |-> NoError]
    ELSE LET head == emailEntryFromRow(Head(list))
             tail == ScanAll(Tail(list))
         IN  IF head.err # NoError THEN [batch |-> <<>>, err |-> head.err]
             ELSE IF tail.err # NoError THEN tail
             ELSE [batch |-> <<Deref(head.entry)>> \o tail.batch, err |-> NoError]

----------------------------------------------------------------------------
(* Calls and results *)

NoEntry == EmailEntry(0, "", Nil, FALSE)

Call(op, email, entry, page, count) ==
    [op |-> op, email |-> email, entry |-> entry, Page |-> page, Count |-> count]

NoCall == Call("none", "", NoEntry, 0, 0)

\* The entries a caller may pass to UpdateEmail: UpdateEmail never reads Id.
Entries ==
    {EmailEntry(0, e, c, o) : e \in Emails, c \in {Nil} \cup {Ptr(t) : t \in Times},
                              o \in BOOLEAN}

Calls ==
    {Call("TryCreate", "", NoEntry, 0, 0)}
    \cup {Call(op, e, NoEntry, 0, 0) : op \in {"CreateEmail", "GetEmail", "DeleteEmail"},
                                       e \in Emails}
    \cup {Call("UpdateEmail", "", en, 0, 0) : en \in Entries}
    \cup {Call("GetEmailBatch", "", NoEntry, pg, ct) : pg \in MinParam..MaxPage,
                                                      ct \in MinParam..MaxCount}

\* What a function hands back: the error, the entry pointer (GetEmail) and the
\* slice (GetEmailBatch).
Ret(err, entry, batch) == [err |-> err, entry |-> entry, batch |-> batch]

NoRet == Ret(NoError, Nil, <<>>)

----------------------------------------------------------------------------
(* The functions of the package *)

\* A caller enters a function of the package.
Invoke(p, c) ==
    /\ pc[p] \notin {"called", "rows", "exited"}
    /\ pc' = [pc EXCEPT ![p] = "called"]
    /\ call' = [call EXCEPT ![p] = c]
    /\ ret' = [ret EXCEPT ![p] = NoRet]
    /\ stmtErr' = [stmtErr EXCEPT ![p] = NoError]
    /\ rowsOpened' = [rowsOpened EXCEPT ![p] = 0]
    /\ UNCHANGED <<dbVars, openRows>>

\* A variant in which no function defers rows.Close().
DeferredNone(position) == <<>>

\* The deferred calls in force at a position inside a function, latest first.
\* The only defer of the package is rows.Close(), the statement after the error
\* check of db.Query in GetEmail and in GetEmailBatch.
Deferred(position) == IF position = "rows" THEN <<"rows.Close">> ELSE <<>>

\* How many of the deferred calls ds close a result set.
Closes(ds) == Len(SelectSeq(ds, LAMBDA d : d = "rows.Close"))

\* The function leaves from its position, returning r or panicking: the calls it
\* deferred so far run, then the caller has r.
Returns(p, r) ==
    /\ pc' = [pc EXCEPT ![p] = "returned"]
    /\ ret' = [ret EXCEPT ![p] = r]
    /\ openRows' = [openRows EXCEPT ![p] = @ - Closes(Deferred(pc[p]))]
    /\ UNCHANGED <<call, rowsOpened, stmtErr>>

\* The error of db.Query for a SELECT on table emails.
QueryErr(exists) == IF exists THEN NoError ELSE ErrNoSuchTable

\* rows, err := db.Query(...) and the statements up to defer rows.Close(): with
\* an error the function returns it, rows being nil and nothing deferred;
\* without, the caller holds an open result set and has deferred its Close.
Query(p, err) ==
    IF err # NoError
    THEN Returns(p, Ret(err, Nil, <<>>))
    ELSE /\ pc' = [pc EXCEPT ![p] = "rows"]
         /\ openRows' = [openRows EXCEPT ![p] = @ + 1]
         /\ rowsOpened' = [rowsOpened EXCEPT ![p] = @ + 1]
         /\ UNCHANGED <<call, ret, stmtErr>>

\* Caller p is inside op and reads the result set of its query.
Reading(p, op) == pc[p] = "rows" /\ call[p].op = op

Running(p, op) == pc[p] = "called" /\ call[p].op = op

\* A variant of TryCreate's error handling that treats every error as fatal.
TryCreateOutcomeStrict(err) == IF err = NoError THEN NoError ELSE Fatal

\* What TryCreate does with the error of CREATE TABLE: nothing without an error or
\* with an sqlite3.Error of code 1, log.Fatal otherwise.
TryCreateOutcome(err) ==
    IF err = NoError THEN NoError
    ELSE IF IsSqliteError(err)
    THEN IF SqliteCode(err) # 1 THEN Fatal ELSE NoError
    ELSE Fatal

\* A variant of TryCreate that drops and recreates the table.
TryCreateReset(p) ==
    /\ Running(p, "TryCreate")
    /\ tableExists' = TRUE
    /\ emails' = {}
    /\ pc' = [pc EXCEPT ![p] = "returned"]
    /\ ret' = [ret EXCEPT ![p] = Ret(NoError, Nil, <<>>)]
    /\ UNCHANGED <<call, openRows, rowsOpened, stmtErr>>

\* TryCreate when db.Exec hands it err for CREATE TABLE: log.Fatal ends the
\* process, and with it every caller; otherwise TryCreate returns.
TryCreateOn(p, err) ==
    /\ Running(p, "TryCreate")
    /\ tableExists' = (tableExists \/ err = NoError)
    /\ stmtErr' = [stmtErr EXCEPT ![p] = err]
    /\ IF TryCreateOutcome(err) = Fatal
       THEN /\ pc' = [q \in Callers |-> "exited"]
            /\ ret' = [ret EXCEPT ![p] = Ret(Fatal, Nil, <<>>)]
       ELSE /\ pc' = [pc EXCEPT ![p] = "returned"]
            /\ ret' = [ret EXCEPT ![p] = Ret(NoError, Nil, <<>>)]
    /\ UNCHANGED <<emails, call, openRows, rowsOpened>>

\* TryCreate on a store without faults.
TryCreate(p) == TryCreateOn(p, CreateTableStmt(tableExists))

CreateEmail(p) ==
    /\ Running(p, "CreateEmail")
    /\ LET r == InsertNewStmt(tableExists, emails, call[p].email)
       IN  /\ emails' = r.emails
           /\ Returns(p, Ret(r.err, Nil, <<>>))
    /\ UNCHANGED tableExists

\* A variant of GetEmail that reports a missing row as sql.ErrNoRows.
GetEmailResultsErrNoRows(exists, tbl, email) ==
    IF ~exists THEN {Ret(ErrNoSuchTable, Nil, <<>>)}
    ELSE IF RowsWithEmail(tbl, email) = {} THEN {Ret(ErrNoRows, Nil, <<>>)}
    ELSE {Ret(emailEntryFromRow(r).err, emailEntryFromRow(r).entry, <<>>) :
             r \in RowsWithEmail(tbl, email)}

\* What GetEmail may return from table tbl: the query's error; nil and no error
\* when the result set is empty; otherwise the mapping of the first row of the
\* result set, which the query does not order.
GetEmailResults(exists, tbl, email) ==
    IF ~exists THEN {Ret(ErrNoSuchTable, Nil, <<>>)}
    ELSE IF RowsWithEmail(tbl, email) = {} THEN {Ret(NoError, Nil, <<>>)}
    ELSE {Ret(emailEntryFromRow(r).err, emailEntryFromRow(r).entry, <<>>) :
             r \in RowsWithEmail(tbl, email)}

\* GetEmail up to defer rows.Close().
GetEmailQuery(p) ==
    /\ Running(p, "GetEmail")
    /\ Query(p, QueryErr(tableExists))
    /\ UNCHANGED dbVars

\* The loop of GetEmail and the return after it.
GetEmailRows(p) ==
    /\ Reading(p, "GetEmail")
    /\ \E g \in GetEmailResults(tableExists, emails, call[p].email) : Returns(p, g)
    /\ UNCHANGED dbVars

GetEmail(p) == GetEmailQuery(p) \/ GetEmailRows(p)

UpdateEmail(p) ==
    /\ Running(p, "UpdateEmail")
    /\ LET entry == call[p].entry
       IN  IF entry.ConfirmedAt = Nil
           THEN \* entry.ConfirmedAt.Unix() dereferences nil
                /\ Returns(p, Ret(Panic, Nil, <<>>))
                /\ UNCHANGED emails
           ELSE LET t == Unix(Deref(entry.ConfirmedAt))
                    r == UpsertStmt(tableExists, emails, entry.Email, t,
                                    BindBool(entry.OptOut))
                IN  /\ emails' = r.emails
                    /\ Returns(p, Ret(r.err, Nil, <<>>))
    /\ UNCHANGED tableExists

DeleteEmail(p) ==
    /\ Running(p, "DeleteEmail")
    /\ LET r == SoftDeleteStmt(tableExists, emails, call[p].email)
       IN  /\ emails' = r.emails
           /\ Returns(p, Ret(r.err, Nil, <<>>))
    /\ UNCHANGED tableExists

\* A variant of GetEmailBatch that takes Page as 0-based (OFFSET Page * Count).
GetEmailBatchZeroBased(exists, tbl, page, count) ==
    IF ~exists THEN Ret(ErrNoSuchTable, Nil, <<>>)
    ELSE IF count < 0 THEN Ret(Panic, Nil, <<>>)
    ELSE LET s == ScanAll(SelectBatch(tbl, count, page * count))
         IN  Ret(s.err, Nil, s.batch)

\* What GetEmailBatch returns from table tbl.
GetEmailBatchResult(exists, tbl, page, count) ==
    IF ~exists THEN Ret(ErrNoSuchTable, Nil, <<>>)
    ELSE IF count < 0
    THEN \* make([]EmailEntry, 0, params.Count) with a negative capacity
         Ret(Panic, Nil, <<>>)
    ELSE LET s == ScanAll(SelectBatch(tbl, count, (page - 1) * count))
         IN  Ret(s.err, Nil, s.batch)

\* GetEmailBatch up to defer rows.Close().
GetEmailBatchQuery(p) ==
    /\ Running(p, "GetEmailBatch")
    /\ Query(p, QueryErr(tableExists))
    /\ UNCHANGED dbVars

\* make, the loop of GetEmailBatch and the return after it.
GetEmailBatchRows(p) ==
    /\ Reading(p, "GetEmailBatch")
    /\ Returns(p, GetEmailBatchResult(tableExists, emails, call[p].Page,
                                      call[p].Count))
    /\ UNCHANGED dbVars

GetEmailBatch(p) == GetEmailBatchQuery(p) \/ GetEmailBatchRows(p)

----------------------------------------------------------------------------
(* One caller at a time *)

Init ==
    /\ tableExists = FALSE
    /\ emails = {}
    /\ pc = [p \in Callers |-> "idle"]
    /\ call = [p \in Callers |-> NoCall]
    /\ ret = [p \in Callers |-> NoRet]
    /\ openRows = [p \in Callers |-> 0]
    /\ rowsOpened = [p \in Callers |-> 0]
    /\ stmtErr = [p \in Callers |-> NoError]
    /\ pagerCount = 0
    /\ pagerNext = 0
    /\ pagerPages = <<>>
    /\ pagerBase = {}
    /\ pagerClean = TRUE

Enter == \E c \in Calls : Invoke(1, c) /\ UNCHANGED pagerVars

Next ==
    \/ Enter
    \/ TryCreate(1) /\ UNCHANGED pagerVars
    \/ CreateEmail(1) /\ UNCHANGED pagerVars
    \/ GetEmail(1) /\ UNCHANGED pagerVars
    \/ UpdateEmail(1) /\ UNCHANGED pagerVars
    \/ DeleteEmail(1) /\ UNCHANGED pagerVars
    \/ GetEmailBatch(1) /\ UNCHANGED pagerVars

Spec == Init /\ [][Next]_vars

----------------------------------------------------------------------------
(* Concurrent callers of UpdateEmail.  The table has been created.  Every   *)
(* caller may be inside UpdateEmail at the same time; the store executes    *)
(* their statements one at a time, in any order.                            *)

InitConc ==
    /\ tableExists = TRUE
    /\ emails = {}
    /\ pc = [p \in Callers |-> "idle"]
    /\ call = [p \in Callers |-> NoCall]
    /\ ret = [p \in Callers |-> NoRet]
    /\ openRows = [p \in Callers |-> 0]
    /\ rowsOpened = [p \in Callers |-> 0]
    /\ stmtErr = [p \in Callers |-> NoError]
    /\ pagerCount = 0
    /\ pagerNext = 0
    /\ pagerPages = <<>>
    /\ pagerBase = {}
    /\ pagerClean = TRUE

ConcEmails == {"a@x.com", "b@x.com"}

ConcCalls ==
    {Call("UpdateEmail", "", EmailEntry(0, e, Ptr(TimeUnix(s)), o), 0, 0) :
        e \in ConcEmails, s \in {0, MaxSec}, o \in BOOLEAN}

EnterConc == \E p \in Callers : \E c \in ConcCalls : Invoke(p, c) /\ UNCHANGED pagerVars

ExecConc == \E p \in Callers : UpdateEmail(p) /\ UNCHANGED pagerVars

NextConc == EnterConc \/ ExecConc

SpecConc == InitConc /\ [][NextConc]_vars

----------------------------------------------------------------------------
(* A client that pages through GetEmailBatch with a fixed Count, page 1, 2,  *)
(* 3, ..., while another caller writes between its fetches and inside them:  *)
(* between the client's call, its db.Query and its reading of the rows.      *)

\* The ids of a batch.
Ids(batch) == [i \in 1..Len(batch) |-> batch[i].Id]

\* The caller that pages.
Pager == NumCallers

\* The client begins a scan: it calls GetEmailBatch for page 1.
PagerBegin ==
    /\ pagerCount = 0
    /\ \E count \in 1..MaxCount :
          /\ Invoke(Pager, Call("GetEmailBatch", "", NoEntry, 1, count))
          /\ pagerCount' = count
    /\ pagerNext' = 1
    /\ pagerPages' = <<>>
    /\ pagerBase' = {x.id : x \in {y \in emails : y.opt_out = SqlFalse}}
    /\ pagerClean' = TRUE

\* The client calls GetEmailBatch for the next page of its scan.
PagerContinue ==
    /\ pagerCount > 0
    /\ pc[Pager] = "returned"
    /\ pagerNext <= MaxPage
    /\ Invoke(Pager, Call("GetEmailBatch", "", NoEntry, pagerNext, pagerCount))
    /\ UNCHANGED pagerVars

\* The client's call issues its query; its rows are not read yet.
PagerQuery == GetEmailBatchQuery(Pager) /\ UNCHANGED pagerVars

\* The client's call reads its rows and returns the page.
PagerRows ==
    /\ GetEmailBatchRows(Pager)
    /\ LET r == GetEmailBatchResult(tableExists, emails, call[Pager].Page,
                                    call[Pager].Count)
       IN  /\ r.err = NoError
           /\ pagerPages' = Append(pagerPages, Ids(r.batch))
    /\ pagerNext' = pagerNext + 1
    /\ UNCHANGED <<pagerCount, pagerBase, pagerClean>>

\* The scan notes whether a write changed the opt_out of a row that was there.
PagerObserves ==
    /\ pagerClean' = (pagerClean /\ (pagerCount = 0 \/
                         \A r \in emails : \E r2 \in emails' :
                            r2.id = r.id /\ r2.opt_out = r.opt_out))
    /\ UNCHANGED <<pagerCount, pagerNext, pagerPages, pagerBase>>

PageCalls ==
    {Call("UpdateEmail", "", EmailEntry(0, e, Ptr(TimeUnix(MaxSec)), o), 0, 0) :
        e \in Emails, o \in BOOLEAN}
    \cup {Call("DeleteEmail", e, NoEntry, 0, 0) : e \in Emails}

EnterPage == \E c \in PageCalls : Invoke(1, c) /\ UNCHANGED pagerVars

NextPage ==
    \/ EnterPage
    \/ UpdateEmail(1) /\ PagerObserves
    \/ DeleteEmail(1) /\ PagerObserves
    \/ PagerBegin
    \/ PagerContinue
    \/ PagerQuery
    \/ PagerRows

SpecPage == InitConc /\ [][NextPage]_vars

----------------------------------------------------------------------------
(* A database that is also written from outside the package.  The columns   *)
(* confirmed_at and opt_out are declared without NOT NULL, so another       *)
(* program that shares the table may leave NULL in them.                    *)

\* Another program sets confirmed_at of a row to NULL.
ForeignNull ==
    /\ tableExists
    /\ \E r \in emails :
          /\ r.confirmed_at # SqlNull
          /\ emails' = (emails \ {r}) \cup {[r EXCEPT !.confirmed_at = SqlNull]}
    /\ UNCHANGED <<tableExists, callVars, pagerVars>>

ExtCalls ==
    {Call("TryCreate", "", NoEntry, 0, 0)}
    \cup {Call("GetEmail", e, NoEntry, 0, 0) : e \in Emails}
    \cup {Call("UpdateEmail", "", EmailEntry(0, e, Ptr(TimeUnix(0)), o), 0, 0) :
             e \in Emails, o \in BOOLEAN}
    \cup {Call("GetEmailBatch", "", NoEntry, pg, ct) : pg \in MinParam..MaxPage,
                                                      ct \in MinParam..MaxCount}

EnterExt == \E c \in ExtCalls : Invoke(1, c) /\ UNCHANGED pagerVars

NextExt ==
    \/ EnterExt
    \/ TryCreate(1) /\ UNCHANGED pagerVars
    \/ GetEmail(1) /\ UNCHANGED pagerVars
    \/ UpdateEmail(1) /\ UNCHANGED pagerVars
    \/ GetEmailBatch(1) /\ UNCHANGED pagerVars
    \/ ForeignNull

SpecExt == Init /\ [][NextExt]_vars

----------------------------------------------------------------------------
(* A store that may fail CREATE TABLE for other reasons than the table's    *)
(* presence.                                                                *)

\* The errors db.Exec may hand to TryCreate.  SQLite finds the table when it
\* prepares the statement, before it would write.
StoreAnswers(exists) ==
    IF exists THEN {ErrTableExists, ErrClosed}
    ELSE {NoError, ErrIndexNamed, ErrReadOnly, ErrClosed}

FaultCalls ==
    {Call("TryCreate", "", NoEntry, 0, 0)}
    \cup {Call("GetEmail", e, NoEntry, 0, 0) : e \in Emails}
    \cup {Call("UpdateEmail", "", EmailEntry(0, e, Ptr(TimeUnix(0)), o), 0, 0) :
             e \in Emails, o \in BOOLEAN}

EnterFault == \E c \in FaultCalls : Invoke(1, c) /\ UNCHANGED pagerVars

TryCreateFault == \E err \in StoreAnswers(tableExists) :
                     TryCreateOn(1, err) /\ UNCHANGED pagerVars

NextFault ==
    \/ EnterFault
    \/ TryCreateFault
    \/ GetEmail(1) /\ UNCHANGED pagerVars
    \/ UpdateEmail(1) /\ UNCHANGED pagerVars

SpecFault == Init /\ [][NextFault]_vars

----------------------------------------------------------------------------
(* Vocabulary of the properties *)

\* This step is caller p's call of op executing its statement and returning.
Executes(p, op) ==
    pc[p] \in {"called", "rows"} /\ call[p].op = op /\ pc'[p] = "returned"

\* Caller p has returned from op.
Returned(p, op) == pc[p] = "returned" /\ call[p].op = op

\* The entry GetEmail and GetEmailBatch hand out for row r.
EntryOf(r) == EmailEntry(r.id, r.email, Ptr(TimeUnix(r.confirmed_at)), r.opt_out = 1)

\* The rows GetEmailBatch pages over, and the position (from 1) of one of them
\* among these in ascending id.
Active(tbl) == {r \in tbl : r.opt_out = 0}
Rank(tbl, r) == Cardinality({q \in Active(tbl) : q.id <= r.id})

----------------------------------------------------------------------------
(* Properties of one caller's calls *)

\* C1: UpdateEmail (Upsert) on an existing table, for an entry that carries a
\* time: with no row for entry.Email it adds exactly one row, which holds the
\* entry's seconds and opt-out flag; with a row for entry.Email it sets that row's
\* confirmed_at and opt_out, adds no row and keeps the row's id; either way it
\* returns no error.
C1_UpsertInsertsOrUpdates ==
    [][\A p \in Callers :
        (Executes(p, "UpdateEmail") /\ tableExists /\ call[p].entry.ConfirmedAt # Nil)
        => LET en  == call[p].entry
               t   == Deref(en.ConfirmedAt).sec
               o   == IF en.OptOut THEN 1 ELSE 0
               old == RowsWithEmail(emails, en.Email)
           IN  /\ ret'[p].err = NoError
               /\ IF old = {}
                  THEN /\ emails \subseteq emails'
                       /\ Cardinality(emails') = Cardinality(emails) + 1
                       /\ \A r \in emails' \ emails :
                             r.email = en.Email /\ r.confirmed_at = t /\ r.opt_out = o
                  ELSE /\ Cardinality(emails') = Cardinality(emails)
                       /\ \A r \in old :
                             [id |-> r.id, email |-> r.email,
                              confirmed_at |-> t, opt_out |-> o] \in emails'
      ]_vars

\* C1 witness: an upsert of an email whose row was there (it has id 1 and a later
\* row exists) has returned without error, and the row holds the new values.
C1_Witness ==
    /\ Returned(1, "UpdateEmail") /\ ret[1].err = NoError
    /\ call[1].entry.OptOut
    /\ call[1].entry.ConfirmedAt = Ptr([sec |-> MaxSec, nsec |-> HalfSecond])
    /\ Cardinality(emails) = 2
    /\ Row(1, call[1].entry.Email, MaxSec, 1) \in emails

\* C2: in every reachable state an email identifies at most one row.
C2_EmailUnique ==
    \A r1 \in emails : \A r2 \in emails : r1.email = r2.email => r1 = r2

\* C2 witness: every email has a row, and the last call was an upsert of the
\* email of the oldest row.
C2_Witness ==
    /\ Cardinality(emails) = Cardinality(Emails)
    /\ Returned(1, "UpdateEmail") /\ ret[1].err = NoError
    /\ \E r \in emails : r.id = 1 /\ r.email = call[1].entry.Email

\* C3 (as claimed): CreateEmail on an existing table without a row for the email
\* returns no error and adds exactly one row for it, with confirmed_at 0 and
\* opt_out false.
C3_CreateInserts ==
    [][\A p \in Callers :
        (Executes(p, "CreateEmail") /\ tableExists
            /\ RowsWithEmail(emails, call[p].email) = {})
        => /\ ret'[p].err = NoError
           /\ \E id \in 1..(Cardinality(emails) + 1) :
                 /\ Row(id, call[p].email, 0, 0) \notin emails
                 /\ emails' = emails \cup {Row(id, call[p].email, 0, 0)}
      ]_vars

\* C4 (as claimed): CreateEmail for an email that has a row fails with the
\* unique-constraint error and leaves the table as it was.
C4_CreateDuplicateFails ==
    [][\A p \in Callers :
        (Executes(p, "CreateEmail") /\ tableExists
            /\ RowsWithEmail(emails, call[p].email) # {})
        => /\ ret'[p].err = ErrUnique
           /\ emails' = emails
      ]_vars

\* C5: DeleteEmail (SoftDelete) of an email that has a row keeps the row and sets
\* its opt_out; a row with opt_out set keeps it through every step that is not an
\* upsert of its email with OptOut false; GetEmail of such a row returns it with
\* OptOut true; and no GetEmailBatch result holds such a row.
C5_SoftDeleteHides ==
    [][\A p \in Callers :
        /\ Executes(p, "DeleteEmail") /\ tableExists
           => /\ ret'[p].err = NoError
              /\ Cardinality(emails') = Cardinality(emails)
              /\ \A r \in RowsWithEmail(emails, call[p].email) :
                    [r EXCEPT !.opt_out = 1] \in emails'
        /\ \A r \in emails :
              (r.opt_out = 1 /\ ~\E q \in Callers : /\ Executes(q, "UpdateEmail")
                                                    /\ call[q].entry.Email = r.email
                                                    /\ ~call[q].entry.OptOut)
              => \E r2 \in emails' : r2.id = r.id /\ r2.email = r.email /\ r2.opt_out = 1
        /\ Executes(p, "GetEmail")
           => \A r \in RowsWithEmail(emails, call[p].email) :
                 r.opt_out = 1
                 => /\ ret'[p].err = NoError
                    /\ ret'[p].entry # Nil
                    /\ ret'[p].entry[1].Id = r.id
                    /\ ret'[p].entry[1].Email = r.email
                    /\ ret'[p].entry[1].OptOut = TRUE
        /\ Executes(p, "GetEmailBatch")
           => \A i \in 1..Len(ret'[p].batch) : \A r \in emails :
                 r.opt_out = 1
                 => ret'[p].batch[i].Id # r.id /\ ret'[p].batch[i].Email # r.email
      ]_vars

\* C5 witness: a soft delete of an email with a row has returned, the row is
\* there with opt_out set, and another row is still visible to GetEmailBatch.
C5_Witness ==
    /\ Returned(1, "DeleteEmail") /\ ret[1].err = NoError
    /\ \E r \in emails : r.email = call[1].email /\ r.opt_out = 1
    /\ \E r \in emails : r.email # call[1].email /\ r.opt_out = 0

\* C6: GetEmailBatch with Page >= 1 and Count >= 1 on an existing table returns,
\* without error, the rows with opt_out false whose position in ascending id lies
\* in (Page-1)*Count+1 .. (Page-1)*Count+Count, in that order: none when the
\* window lies beyond the last such row.
C6_BatchWindow ==
    [][\A p \in Callers :
        (Executes(p, "GetEmailBatch") /\ tableExists
            /\ call[p].Page >= 1 /\ call[p].Count >= 1)
        => LET first == (call[p].Page - 1) * call[p].Count
               total == Cardinality(Active(emails))
               n     == IF total <= first THEN 0
                        ELSE IF total - first < call[p].Count THEN total - first
                        ELSE call[p].Count
               b     == ret'[p].batch
           IN  /\ ret'[p].err = NoError
               /\ Len(b) = n
               /\ \A i \in 1..n :
                     \E r \in Active(emails) :
                        Rank(emails, r) = first + i /\ b[i] = EntryOf(r)
      ]_vars

\* C6 witness: with three rows to page over, page 2 of size 2 has returned the
\* one row left, and it is the row of the largest id.
C6_Witness ==
    /\ Returned(1, "GetEmailBatch") /\ ret[1].err = NoError
    /\ call[1].Page = 2 /\ call[1].Count = 2
    /\ Cardinality(Active(emails)) = 3
    /\ Len(ret[1].batch) = 1
    /\ ret[1].batch[1].Id = 3

\* C6 witness of the empty window is the same call for page 3.
C6_WitnessBeyond ==
    /\ Returned(1, "GetEmailBatch") /\ ret[1].err = NoError
    /\ call[1].Page = 3 /\ call[1].Count = 2
    /\ Cardinality(Active(emails)) = 3
    /\ ret[1].batch = <<>>

\* C9: a step in which a row's opt_out goes from true to false is an UpdateEmail
\* (Upsert) of that row's email with OptOut false.
C9_OptOutReversedOnlyByUpsert ==
    [][\A r \in emails : \A r2 \in emails' :
        (r.opt_out = 1 /\ r2.opt_out = 0 /\ (r2.id = r.id \/ r2.email = r.email))
        => \E p \in Callers :
              /\ Executes(p, "UpdateEmail")
              /\ call[p].entry.Email = r.email
              /\ call[p].entry.OptOut = FALSE
      ]_vars

\* C9 witness: an upsert with OptOut false of the email of the oldest row has
\* returned, and the row is visible again while a younger row is opted out.
C9_Witness ==
    /\ Returned(1, "UpdateEmail") /\ ret[1].err = NoError
    /\ ~call[1].entry.OptOut
    /\ \E r \in emails : r.id = 1 /\ r.email = call[1].entry.Email /\ r.opt_out = 0
    /\ \E r \in emails : r.id = 2 /\ r.opt_out = 1

\* C10: every row of a state is in the next state with its id and its email; if
\* its confirmed_at or opt_out differ, the step is an UpdateEmail (Upsert) of its
\* email, or a DeleteEmail (SoftDelete) of its email that only set opt_out.
C10_RowsStay ==
    [][\A r \in emails :
        \E r2 \in emails' :
           /\ r2.id = r.id
           /\ r2.email = r.email
           /\ r2 # r
              => \E p \in Callers :
                    \/ Executes(p, "UpdateEmail") /\ call[p].entry.Email = r.email
                    \/ /\ Executes(p, "DeleteEmail") /\ call[p].email = r.email
                       /\ r2 = [r EXCEPT !.opt_out = 1]
      ]_vars

\* C10 witness: TryCreate has run again on a table that holds rows, and they are
\* all there.
C10_Witness ==
    /\ Returned(1, "TryCreate") /\ ret[1].err = NoError
    /\ Cardinality(emails) = Cardinality(Emails)

----------------------------------------------------------------------------
(* Properties of concurrent callers *)

\* The callers that have returned from an upsert of email e.
Upserted(e) == {p \in Callers : Returned(p, "UpdateEmail") /\ call[p].entry.Email = e}

\* The values an upsert call stores.
StoredPair(en) == <<Deref(en.ConfirmedAt).sec, IF en.OptOut THEN 1 ELSE 0>>

\* C7: concurrent upserts of one email.  An upsert that executes while another
\* caller is inside an upsert of the same email, or has completed one, returns no
\* error and leaves exactly one row for the email, holding its values; and once
\* every caller that has called anything has returned from an upsert of that
\* email, the table holds exactly one row for it, whose values are those of one
\* of these calls, and none of the calls has failed.
C7_ConcurrentUpserts ==
    /\ [][\A p \in Callers : \A q \in Callers \ {p} :
           (/\ Executes(p, "UpdateEmail")
            /\ call[q].op = "UpdateEmail"
            /\ call[q].entry.Email = call[p].entry.Email)
           => /\ ret'[p].err = NoError
              /\ Cardinality(RowsWithEmail(emails', call[p].entry.Email)) = 1
              /\ \A r \in RowsWithEmail(emails', call[p].entry.Email) :
                    <<r.confirmed_at, r.opt_out>> = StoredPair(call[p].entry)
        ]_vars
    /\ [](\A e \in Emails :
            (Upserted(e) # {} /\ \A p \in Callers : p \in Upserted(e) \/ pc[p] = "idle")
            => /\ \A p \in Upserted(e) : ret[p].err = NoError
               /\ Cardinality(RowsWithEmail(emails, e)) = 1
               /\ \A r \in RowsWithEmail(emails, e) :
                     \E p \in Upserted(e) :
                        <<r.confirmed_at, r.opt_out>> = StoredPair(call[p].entry))

\* C7 witness: callers 1 and 2 have both returned from upserts of one email with
\* different values, and the row holds the values of caller 1.
C7_Witness ==
    /\ Returned(1, "UpdateEmail") /\ Returned(2, "UpdateEmail")
    /\ call[1].entry.Email = call[2].entry.Email
    /\ StoredPair(call[1].entry) # StoredPair(call[2].entry)
    /\ ret[1].err = NoError /\ ret[2].err = NoError
    /\ \E r \in emails : /\ r.email = call[1].entry.Email
                         /\ <<r.confirmed_at, r.opt_out>> = StoredPair(call[1].entry)

\* C8: while no row that was there changes its opt_out during a scan, no row
\* comes back on two pages of the scan (or twice on one), and every row that was
\* visible when the scan began and whose position falls within the pages fetched
\* so far has come back; a scan that has reached a page that is not full has
\* returned all of them.
C8_PagingStable ==
    (pagerCount > 0 /\ pagerClean)
    => /\ \A i \in 1..Len(pagerPages) : \A j \in 1..Len(pagerPages) :
          \A a \in 1..Len(pagerPages[i]) : \A b \in 1..Len(pagerPages[j]) :
             pagerPages[i][a] = pagerPages[j][b] => (i = j /\ a = b)
       /\ \A id \in pagerBase :
             Cardinality({x \in pagerBase : x <= id}) <= Len(pagerPages) * pagerCount
             => \E i \in 1..Len(pagerPages) : \E a \in 1..Len(pagerPages[i]) :
                   pagerPages[i][a] = id
       /\ (\E i \in 1..Len(pagerPages) : Len(pagerPages[i]) < pagerCount)
             => \A id \in pagerBase :
                   \E i \in 1..Len(pagerPages) : \E a \in 1..Len(pagerPages[i]) :
                      pagerPages[i][a] = id

\* C8 witness: a scan of page size 1 began with one visible row, rows were
\* inserted between its fetches, and its three pages hold three different rows.
C8_Witness ==
    /\ pagerCount = 1 /\ pagerClean
    /\ pagerBase = {1}
    /\ Len(pagerPages) = 3
    /\ pagerPages = << <<1>>, <<2>>, <<3>> >>

\* C8 witness of a write inside a fetch: the scan began with one visible row and
\* its first page holds a second row, inserted after the client called.
C8_WitnessInside ==
    /\ pagerCount = 2 /\ pagerClean
    /\ pagerBase = {1}
    /\ pagerPages = << <<1, 2>> >>

----------------------------------------------------------------------------
(* Further properties of one caller's calls *)

\* C11: GetEmail on an existing table returns nil and no error when no row has
\* the email (also on an empty table), and the entry of the one row that has it
\* otherwise.
C11_GetAbsentOrRow ==
    [][\A p \in Callers :
        (Executes(p, "GetEmail") /\ tableExists)
        => LET rows == {r \in emails : r.email = call[p].email}
           IN  /\ ret'[p].err = NoError
               /\ rows = {} => ret'[p].entry = Nil
               /\ \A r \in rows : ret'[p].entry = <<EntryOf(r)>>
      ]_vars

\* C11 witness: GetEmail has returned nil and no error for an email without a
\* row, from a table that holds rows of other emails.
C11_Witness ==
    /\ Returned(1, "GetEmail") /\ ret[1].err = NoError /\ ret[1].entry = Nil
    /\ tableExists
    /\ Cardinality(emails) = 2
    /\ \A r \in emails : r.email # call[1].email

\* C11 witness of the other outcome: GetEmail has returned the row of its email.
C11_WitnessFound ==
    /\ Returned(1, "GetEmail") /\ ret[1].err = NoError /\ ret[1].entry # Nil
    /\ ret[1].entry[1].Email = call[1].email
    /\ ret[1].entry[1].Id = 2

\* C13: after an UpdateEmail (Upsert) of an entry with time t, on an existing
\* table, GetEmail of the entry's email from the table as the upsert left it
\* returns ConfirmedAt = t cut to whole seconds; the epoch reads back as the epoch.
C13_TimestampRoundTrip ==
    [][\A p \in Callers :
        (Executes(p, "UpdateEmail") /\ tableExists /\ call[p].entry.ConfirmedAt # Nil)
        => LET t == call[p].entry.ConfirmedAt[1]
           IN  \A g \in GetEmailResults(tableExists', emails', call[p].entry.Email) :
                  /\ g.err = NoError
                  /\ g.entry # Nil
                  /\ g.entry[1].ConfirmedAt = <<[sec |-> t.sec, nsec |-> 0]>>
      ]_vars

\* C13 witness: an upsert of a time half a second past MaxSec has returned, and
\* GetEmail reads MaxSec back.
C13_Witness ==
    /\ Returned(1, "UpdateEmail") /\ ret[1].err = NoError
    /\ ~call[1].entry.OptOut
    /\ call[1].entry.ConfirmedAt = Ptr([sec |-> MaxSec, nsec |-> HalfSecond])
    /\ \E g \in GetEmailResults(tableExists, emails, call[1].entry.Email) :
          g.entry # Nil /\ g.entry[1].ConfirmedAt = Ptr([sec |-> MaxSec, nsec |-> 0])

\* C14: DeleteEmail (SoftDelete) on an existing table returns no error; for an
\* email without a row it leaves the table as it was; and the soft delete of the
\* same email applied to the table it leaves changes nothing more.
C14_SoftDeleteMissingAndIdempotent ==
    [][\A p \in Callers :
        (Executes(p, "DeleteEmail") /\ tableExists)
        => /\ ret'[p].err = NoError
           /\ (\A r \in emails : r.email # call[p].email) => emails' = emails
           /\ SoftDeleteStmt(tableExists', emails', call[p].email)
                 = StmtResult(emails', NoError)
      ]_vars

\* C14 witness: a soft delete of an email without a row has returned without
\* error, from a table that holds a visible row of another email.
C14_Witness ==
    /\ Returned(1, "DeleteEmail") /\ ret[1].err = NoError
    /\ Cardinality(emails) = 1
    /\ \A r \in emails : r.email # call[1].email /\ r.opt_out = 0

\* C15: TryCreate on a database that has the table returns normally, without
\* error and without ending the process, and leaves the table and its rows as
\* they were.
C15_TryCreateIdempotent ==
    [][\A p \in Callers :
        (Running(p, "TryCreate") /\ pc'[p] # "called" /\ tableExists)
        => /\ pc'[p] = "returned"
           /\ ret'[p].err = NoError
           /\ tableExists'
           /\ emails' = emails
      ]_vars

\* C15 witness: TryCreate has returned on a table that held one row.
C15_Witness ==
    /\ Returned(1, "TryCreate") /\ ret[1].err = NoError
    /\ tableExists
    /\ Cardinality(emails) = 1

\* C19: CreateEmail, UpdateEmail and DeleteEmail leave every row of another
\* email as it was, in all four columns; GetEmail and GetEmailBatch leave the
\* whole table as it was.
C19_WritesTouchOneRow ==
    [][\A p \in Callers :
        /\ Executes(p, "CreateEmail")
           => \A r \in emails : r.email # call[p].email => r \in emails'
        /\ Executes(p, "DeleteEmail")
           => \A r \in emails : r.email # call[p].email => r \in emails'
        /\ Executes(p, "UpdateEmail")
           => \A r \in emails : r.email # call[p].entry.Email => r \in emails'
        /\ (Executes(p, "CreateEmail") \/ Executes(p, "DeleteEmail"))
           => \A r2 \in emails' : r2.email # call[p].email => r2 \in emails
        /\ Executes(p, "UpdateEmail")
           => \A r2 \in emails' : r2.email # call[p].entry.Email => r2 \in emails
        /\ (Executes(p, "GetEmail") \/ Executes(p, "GetEmailBatch"))
           => emails' = emails /\ tableExists' = tableExists
      ]_vars

\* C19 witness: a soft delete has returned; its row is opted out and the rows
\* of the two other emails are still visible.
C19_Witness ==
    /\ Returned(1, "DeleteEmail") /\ ret[1].err = NoError
    /\ Cardinality(emails) = 3
    /\ \A r \in emails : (r.opt_out = 1) = (r.email = call[1].email)

\* The error the design asks of GetBatch for invalid paging parameters.
ErrValidation == "ValidationError"

\* C12 (as claimed): GetEmailBatch with Page <= 0 or Count <= 0 fails with a
\* validation error and returns no rows.
C12_BatchValidates ==
    [][\A p \in Callers :
        (Executes(p, "GetEmailBatch") /\ tableExists
            /\ (call[p].Page <= 0 \/ call[p].Count <= 0))
        => /\ ret'[p].err = ErrValidation
           /\ ret'[p].batch = <<>>
      ]_vars

\* C18 (as claimed): GetEmailBatch with Page <= 0 or Count <= 0, negative values
\* included, returns normally: a sequence and no error.
C18_NoValidationReturnsNormally ==
    [][\A p \in Callers :
        (Executes(p, "GetEmailBatch") /\ tableExists
            /\ (call[p].Page <= 0 \/ call[p].Count <= 0))
        => ret'[p].err = NoError
      ]_vars

\* C18 (amended): GetEmailBatch validates nothing.  With Page <= 0 or Count = 0,
\* and Count >= 0, on an existing table it returns without error the first Count
\* rows with opt_out false in ascending id (the non-positive OFFSET skips
\* nothing); with Count < 0 it does not return normally: it panics.
C18_NonPositiveParams ==
    [][\A p \in Callers :
        (Executes(p, "GetEmailBatch") /\ tableExists
            /\ (call[p].Page <= 0 \/ call[p].Count <= 0))
        => IF call[p].Count < 0
           THEN ret'[p].err = Panic /\ ret'[p].batch = <<>>
           ELSE LET total == Cardinality(Active(emails))
                    n     == IF total < call[p].Count THEN total ELSE call[p].Count
                    b     == ret'[p].batch
                IN  /\ ret'[p].err = NoError
                    /\ Len(b) = n
                    /\ \A i \in 1..n :
                          \E r \in Active(emails) :
                             Rank(emails, r) = i /\ b[i] = EntryOf(r)
      ]_vars

\* C18 witness: page 0 of size 2 has returned, without error, the two oldest of
\* three visible rows, which are the rows of page 1.
C18_Witness ==
    /\ Returned(1, "GetEmailBatch") /\ ret[1].err = NoError
    /\ call[1].Page = 0 /\ call[1].Count = 2
    /\ Cardinality(Active(emails)) = 3
    /\ Len(ret[1].batch) = 2
    /\ ret[1].batch[1].Id = 1 /\ ret[1].batch[2].Id = 2

\* C18 witness of the panic: a call with Count = -1 on a table with a visible row.
C18_WitnessPanic ==
    /\ Returned(1, "GetEmailBatch") /\ ret[1].err = Panic
    /\ call[1].Count < 0
    /\ Active(emails) # {}

----------------------------------------------------------------------------
(* Properties of the store's faults and of rows written from outside *)

\* C16 (as claimed): TryCreate swallows the error 'table already exists' and no
\* other: with any other error of CREATE TABLE the process ends, and without it
\* TryCreate returns.
C16_OnlyTableExistsSwallowed ==
    [][\A p \in Callers :
        (pc[p] = "called" /\ call[p].op = "TryCreate" /\ pc'[p] # "called")
        => (pc'[p] = "exited") = (stmtErr'[p] \notin {NoError, ErrTableExists})
      ]_vars

\* C17: a caller that is not inside a function holds no open result set: when
\* GetEmail or GetEmailBatch has returned, every result set its query opened has
\* been closed, whether the function found a row, found none, failed to decode a
\* row or panicked; and a failed query opened none.
C17_NoOpenRows ==
    \A p \in Callers :
        pc[p] \notin {"called", "rows"}
        => /\ openRows[p] = 0
           /\ ret[p].err = ErrNoSuchTable => rowsOpened[p] = 0

\* C17 witness: GetEmailBatch opened a result set and has returned a decode
\* error met at the second row of its window, after a first row that decoded.
C17_Witness ==
    /\ Returned(1, "GetEmailBatch") /\ ret[1].err = ErrScan
    /\ call[1].Page = 1 /\ call[1].Count = 2
    /\ \E r \in emails : r.id = 1 /\ r.opt_out = 0 /\ r.confirmed_at # SqlNull
    /\ \E r \in emails : r.id = 2 /\ r.opt_out = 0 /\ r.confirmed_at = SqlNull
    /\ rowsOpened[1] = 1 /\ openRows[1] = 0

\* C17 witness of the open result set: GetEmailBatch is past its query.
C17_WitnessOpen ==
    /\ Reading(1, "GetEmailBatch")
    /\ rowsOpened[1] = 1 /\ openRows[1] = 1

\* C17 witness of the query error: GetEmailBatch has returned the error of a
\* query on a database without the table.
C17_WitnessQueryError ==
    /\ Returned(1, "GetEmailBatch") /\ ret[1].err = ErrNoSuchTable
    /\ rowsOpened[1] = 0 /\ openRows[1] = 0

\* C17 witness of the return inside the loop of GetEmail.
C17_WitnessFound ==
    /\ Returned(1, "GetEmail") /\ ret[1].err = NoError /\ ret[1].entry # Nil
    /\ rowsOpened[1] = 1 /\ openRows[1] = 0

\* C17 witness of the panic in make: the deferred Close ran.
C17_WitnessPanic ==
    /\ Returned(1, "GetEmailBatch") /\ ret[1].err = Panic
    /\ rowsOpened[1] = 1 /\ openRows[1] = 0

\* C20: whatever the package's functions have been called with, every row holds
\* an integer confirmed_at and a 0 or 1 opt_out, neither NULL, so the row mapper
\* accepts it, and no GetEmail or GetEmailBatch has returned a decode error.
C20_RowsDecodable ==
    /\ \A r \in emails :
          /\ r.confirmed_at # SqlNull
          /\ r.opt_out \in {0, 1}
          /\ emailEntryFromRow(r).err = NoError
    /\ \A p \in Callers :
          (Returned(p, "GetEmail") \/ Returned(p, "GetEmailBatch"))
          => ret[p].err \in {NoError, ErrNoSuchTable, Panic}

\* C20 witness: GetEmailBatch has returned a full page of a table of three rows,
\* among them a row confirmed at the epoch.
C20_Witness ==
    /\ Returned(1, "GetEmailBatch") /\ ret[1].err = NoError
    /\ Len(ret[1].batch) = call[1].Count /\ call[1].Count > 1
    /\ Cardinality(emails) = Cardinality(Emails)
    /\ \E r \in emails : r.confirmed_at = 0
    /\ \E r \in emails : r.confirmed_at = MaxSec

====
